---- MODULE Spec2Model ----
(***************************************************************************)
(* Scraping loops and user-type identification of the repository.         *)
(*                                                                         *)
(* Each script is modelled as a sequential program: pc is its position,   *)
(* every action is one step of its code with the remote answer drawn from *)
(* a small set.  Ids are integers; 0 stands for a missing (None) id.      *)
(***************************************************************************)
EXTENDS Integers, Sequences, FiniteSets, TLC

\* ------------------------------------------------------------------ bounds
\* weibo_data.py: number of entries of KEYWORDS (about 80 in the script).
NumKeywords == 2
\* weibo_data.py MAX_PAGES (30 in the script), scaled down.
MAX_PAGES == 2
\* weibo_data.py TARGET_TOTAL (3000 in the script), scaled down.
TARGET_TOTAL == 2
\* Post ids a page can carry are 0..MaxId, 0 being a missing id: one more
\* distinct id than the target needs.
MaxId == TARGET_TOTAL
\* Longest list of cards / items a page carries.
MaxCards == 1
\* Largest number of pages a paging function is asked for.
MaxPagesArg == 2
\* find_user_uid max_search_pages (5 by default), scaled down.
MaxSearchPages == 2
\* tag_scene: longest text, in pieces
MaxTextLen == 4
\* infer_scene: longest keyword, in pieces
MaxKeywordLen == 3
\* calculate_enhanced_scores: steps from 0 to 1 of the main metrics
RatioSteps == 2

\* ------------------------------------------------------- program constants
EMPTY_LIMIT == 3
MaxAttempts == 3
DefaultPageSize == 10
NumClusters == 3

\* ------------------------------------------------------------------- state
VARIABLES
    pc,               \* position of the running script
    kw_idx,           \* weibo_data: index of the current keyword (1-based)
    page_count,       \* weibo_data: pages fetched for the keyword
    empty_pages,      \* weibo_data: consecutive failed or empty pages
    since_id,         \* weibo_data: cursor returned by the API (0 = None)
    session_info,     \* weibo_data: search_ssid, search_vsid, containerid_base
    last_weibo_id,    \* id of the last post appended (0 = None)
    params,           \* weibo_data: parameters of the current request
    attempt,          \* weibo_data: attempts made for the current page
    success,          \* weibo_data: the attempt loop obtained a page
    count,            \* new posts of the page just processed
    dups,             \* cards of that page rejected as already collected
    all_weibos,       \* collected posts, in order
    log,              \* the last line the loop printed
    unslept,          \* a request was issued and no sleep has followed it yet
    outcome,          \* kind of the answer to the last request
    iters,            \* iterations of the current keyword's page loop
    output,           \* content of the written output file
    page,             \* for-loops: the page being requested
    pages,            \* for-loops: the configured number of pages
    results,          \* for-loops: results / all_results / notes
    seen,             \* seen_bvids / seen_ids
    blogger_name,     \* search_blogger_weibo: blogger_name
    user_id,          \* search_blogger_weibo: user_id argument (0 = None)
    final_user_id,    \* search_blogger_weibo: the UID in use (0 = None)
    search_requests,  \* requests issued by find_user_uid
    timeline_requests,\* requests issued by get_user_timeline
    found_author,     \* find_user_uid: the author it reported
    missed,           \* find_user_uid: a qualifying author was passed over
    returned,         \* value returned by the function that ran
    cluster_profiles, \* identify_user_types: profile of each cluster
    user_type_map,    \* identify_user_types: type given to each cluster
    text,             \* tag_scene: the text argument
    scene_scores,     \* tag_scene: (scene, count) of the scenes that matched
    tags,             \* tag_scene: the string returned
    keyword,          \* infer_scene: the keyword argument
    scene,            \* infer_scene: the scene returned
    script,           \* calculate_enhanced_scores: the script it belongs to
    scores            \* calculate_enhanced_scores: the scores dictionary

\* shared by the scraping loops
cvars == <<all_weibos, last_weibo_id, count, dups, log, outcome, unslept>>
\* weibo_data only
wvars == <<kw_idx, page_count, empty_pages, since_id, session_info, params,
           attempt, success, iters, output>>
\* the for-loops over pages
lvars == <<page, pages, results, seen>>
\* search_blogger_weibo
bvars == <<blogger_name, user_id, final_user_id, search_requests,
           timeline_requests, found_author, missed, returned>>
\* identify_user_types
pvars == <<cluster_profiles, user_type_map>>
\* the analysis functions: tag_scene, infer_scene, calculate_enhanced_scores
avars == <<text, scene_scores, tags, keyword, scene, script, scores>>

vars == <<pc, cvars, wvars, lvars, bvars, pvars, avars>>

Ids == 0..MaxId

\* A card of a result page: a post id (card_type 9 with an mblog), or a
\* card that is skipped (another card_type, or no mblog).
Cards == Ids \cup {-1}

RECURSIVE SeqsUpTo(_, _)
SeqsUpTo(S, n) ==
    IF n = 0 THEN {<<>>}
    ELSE LET shorter == SeqsUpTo(S, n - 1)
         IN  shorter \cup {Append(s, x) : s \in {t \in shorter : Len(t) = n - 1}, x \in S}

Pages == SeqsUpTo(Cards, MaxCards)

NoSession == [search_ssid |-> 0, search_vsid |-> 0, containerid_base |-> 0]

SessionInfos ==
    { NoSession,
      [search_ssid |-> 1, search_vsid |-> 1, containerid_base |-> 1] }

\* The three cursor fields of cardlistInfo (0 when absent).
Cursors ==
    { [since_id |-> 0, since_id_str |-> 0, next_cursor |-> 0],
      [since_id |-> 1, since_id_str |-> 0, next_cursor |-> 0],
      [since_id |-> 0, since_id_str |-> 1, next_cursor |-> 0],
      [since_id |-> 0, since_id_str |-> 0, next_cursor |-> 1] }

\* cardlistInfo of an answer: total and page as int() leaves them (0 when
\* absent or unparsable), page_size, and the cursor fields.
CardlistInfos ==
    [total : {0, MaxId + 1}, page_size : {1, DefaultPageSize}, page : {0, 1},
     cursor : Cursors]

\* The answers drawn for a page: no total; a total with the default and with
\* a reported page and page size.
PageInfos ==
    { i \in CardlistInfos :
        \/ i.total = 0 /\ i.page_size = DefaultPageSize /\ i.page = 0
        \/ i.total > 0 /\ i.cursor.since_id_str = 0 /\ i.cursor.next_cursor = 0
                       /\ (i.page = 0 \/ i.page_size = 1) }

\* The answers that carry neither a cursor nor session fields.
PlainInfos ==
    { i \in PageInfos : i.cursor.since_id = 0 /\ i.cursor.since_id_str = 0
                         /\ i.cursor.next_cursor = 0 }

\* A printed line: its kind and the page it is about.
Log(tag, p) == [tag |-> tag, page |-> p]

NoParams == [containerid |-> "none", since_id |-> 0, page |-> 0,
             search_ssid |-> 0, search_vsid |-> 0]

\* ------------------------------------------------------------- weibo_data
\* Faulty variant: the target test is off by one.
TargetReached_OffByOne(w) == Len(w) > TARGET_TOTAL

\* len(all_weibos) >= TARGET_TOTAL
TargetReached(w) == Len(w) >= TARGET_TOTAL

WhileCond == page_count < MAX_PAGES /\ ~TargetReached(all_weibos)

\* Request parameters built at the top of the page loop.
BuildParams ==
    IF page_count = 0
    THEN [NoParams EXCEPT !.containerid = "keyword"]
    ELSE LET withSession(p) ==
                 [p EXCEPT !.search_ssid = session_info.search_ssid,
                           !.search_vsid = session_info.search_vsid]
         IN  IF last_weibo_id # 0
             THEN withSession([NoParams EXCEPT !.containerid = "keyword",
                                               !.since_id = last_weibo_id])
             ELSE IF session_info.containerid_base # 0
             THEN withSession([NoParams EXCEPT !.containerid = "base",
                                               !.page = page_count + 1])
             ELSE IF since_id # 0
             THEN withSession([NoParams EXCEPT !.containerid = "keyword",
                                               !.since_id = since_id])
             ELSE withSession([NoParams EXCEPT !.containerid = "keyword",
                                               !.page = page_count + 1])

\* Faulty variant: a post counts as collected only under the same keyword.
HasId_SameKeyword(w, id) ==
    \E i \in 1..Len(w) : w[i].id = id /\ w[i].keyword = kw_idx

\* any(w.get('id') == weibo_id for w in all_weibos)
HasId(w, id) == \E i \in 1..Len(w) : w[i].id = id

\* The card loop: appends the posts whose id is not yet collected.
\* Returns the new list, the number appended, the last id appended and the
\* number of cards rejected as duplicates.
RECURSIVE ScanCards(_, _, _, _, _, _)
ScanCards(cards, i, w, n, last, d) ==
    IF i > Len(cards)
    THEN [weibos |-> w, count |-> n, last |-> last, dups |-> d]
    ELSE IF cards[i] = -1
         THEN ScanCards(cards, i + 1, w, n, last, d)
         ELSE IF HasId(w, cards[i])
         THEN ScanCards(cards, i + 1, w, n, last, d + 1)
         ELSE ScanCards(cards, i + 1,
                        Append(w, [id |-> cards[i], keyword |-> kw_idx]),
                        n + 1, cards[i], d)

\* Values of the variables a script does not use.
IdleW ==
    /\ kw_idx = 0 /\ page_count = 0 /\ empty_pages = 0 /\ since_id = 0
    /\ session_info = NoSession /\ params = NoParams /\ attempt = 0
    /\ success = FALSE /\ iters = 0 /\ output = <<>>
IdleC ==
    /\ all_weibos = <<>> /\ last_weibo_id = 0 /\ count = 0 /\ dups = 0
    /\ log = Log("none", 0)
    /\ outcome = "none" /\ unslept = FALSE
IdleL == page = 0 /\ pages = 0 /\ results = <<>> /\ seen = {}
IdleB ==
    /\ blogger_name = <<>> /\ user_id = 0 /\ final_user_id = 0
    /\ search_requests = 0 /\ timeline_requests = 0 /\ found_author = <<>>
    /\ missed = FALSE /\ returned = <<>>
IdleP == cluster_profiles = <<>> /\ user_type_map = <<>>
NoScores == [content |-> 0, comm |-> 0, psych |-> 0, total |-> 0]
IdleA ==
    /\ text = <<>> /\ scene_scores = <<>> /\ tags = <<>>
    /\ keyword = <<>> /\ scene = "none"
    /\ script = "none" /\ scores = NoScores

WeiboInit ==
    /\ pc = "w_while"
    /\ IdleC /\ IdleL /\ IdleB /\ IdleP /\ IdleA
    /\ kw_idx = 1
    /\ page_count = 0
    /\ empty_pages = 0
    /\ since_id = 0
    /\ session_info = NoSession
    /\ params = NoParams
    /\ attempt = 0
    /\ success = FALSE
    /\ iters = 0
    /\ output = <<>>

\* while page_count < MAX_PAGES and len(all_weibos) < TARGET_TOTAL: build
\* the parameters and enter the attempt loop.
WhileEnter ==
    /\ pc = "w_while"
    /\ WhileCond
    /\ params' = BuildParams
    /\ attempt' = 0
    /\ success' = FALSE
    /\ iters' = iters + 1
    /\ pc' = "w_attempt"
    /\ UNCHANGED <<kw_idx, page_count, empty_pages, since_id, session_info,
                   output, cvars, lvars, bvars, pvars, avars>>

WhileExit ==
    /\ pc = "w_while"
    /\ ~WhileCond
    /\ pc' = "w_kw_end"
    /\ UNCHANGED <<cvars, wvars, lvars, bvars, pvars, avars>>

\* Faulty variant: the empty-page limit is tested with > instead of >=.
SkipPage_LateBreak ==
    /\ log' = Log("skipped", page_count + 1)
    /\ empty_pages' = empty_pages + 1
    /\ pc' = IF empty_pages + 1 > EMPTY_LIMIT THEN "w_kw_end" ELSE "w_while"

\* if not success: the page is skipped.
SkipPage ==
    /\ log' = Log("skipped", page_count + 1)
    /\ empty_pages' = empty_pages + 1
    /\ pc' = IF empty_pages + 1 >= EMPTY_LIMIT THEN "w_kw_end" ELSE "w_while"

\* An attempt that raises (JSONDecodeError or any other exception) or gets
\* a status other than 200: sleep, then the next attempt.
AttemptRetry ==
    /\ pc = "w_attempt"
    /\ attempt < MaxAttempts
    /\ \E o \in {"exception", "non200"} : outcome' = o
    /\ unslept' = FALSE
    /\ attempt' = attempt + 1
    /\ log' = Log("retry", page_count + 1)
    /\ UNCHANGED <<pc, kw_idx, page_count, empty_pages, since_id, session_info,
                   params, success, iters, output, all_weibos, last_weibo_id,
                   count, dups, lvars, bvars, pvars, avars>>

\* All three attempts failed.
AttemptsExhausted ==
    /\ pc = "w_attempt"
    /\ attempt = MaxAttempts
    /\ SkipPage
    /\ UNCHANGED <<kw_idx, page_count, since_id, session_info, params, attempt,
                   success, iters, output, all_weibos, last_weibo_id, count,
                   dups, outcome, unslept, lvars, bvars, pvars, avars>>

\* The API answers ok != 1: sleep only when the message reports a rate
\* limit, leave the attempt loop, skip the page.
AttemptApiError ==
    /\ pc = "w_attempt"
    /\ attempt < MaxAttempts
    /\ outcome' = "api_error"
    /\ \E frequent \in BOOLEAN : unslept' = ~frequent
    /\ SkipPage
    /\ UNCHANGED <<kw_idx, page_count, since_id, session_info, params, attempt,
                   success, iters, output, all_weibos, last_weibo_id, count,
                   dups, lvars, bvars, pvars, avars>>

\* since_id, else since_id_str or next_cursor.
NextSinceId(c) ==
    IF c.since_id # 0 THEN c.since_id
    ELSE IF c.since_id_str # 0 THEN c.since_id_str ELSE c.next_cursor

\* What the rest of the loop body does with a page whose card loop gave
\* scan: the new empty_pages and page_count, the line printed, whether the
\* loop is left by a break, and whether the body slept.
PageVerdict(scan, info) ==
    LET emptyNow     == IF scan.count = 0 THEN empty_pages + 1 ELSE 0
        current_page == IF info.page # 0 THEN info.page ELSE page_count + 1
        estimated_current == (current_page - 1) * info.page_size + scan.count
        stay == [empty_pages |-> emptyNow, page_count |-> page_count,
                 break |-> TRUE, slept |-> FALSE, cursor |-> TRUE]
    IN  IF scan.count = 0 /\ emptyNow >= EMPTY_LIMIT
        THEN [stay EXCEPT !.cursor = FALSE] @@ [log |-> "empty_limit"]
        ELSE IF info.total > 0 /\ estimated_current >= info.total
        THEN stay @@ [log |-> "no_more"]
        ELSE IF ~(info.total > 0) /\ scan.count = 0 /\ page_count > 0
        THEN stay @@ [log |-> "maybe_done"]
        ELSE IF TargetReached(scan.weibos)
        THEN [stay EXCEPT !.page_count = page_count + 1, !.slept = TRUE]
                 @@ [log |-> "target"]
        ELSE [stay EXCEPT !.page_count = page_count + 1, !.slept = TRUE,
                          !.break = FALSE] @@ [log |-> "page"]

\* An attempt that gets a page (status 200, ok = 1): the session fields are
\* kept on the first page, the cards are appended, and the loop body runs
\* to its end or to a break.
AttemptOk(infos, sessions) ==
    /\ pc = "w_attempt"
    /\ attempt < MaxAttempts
    /\ \E cards \in Pages, info \in infos,
          sess \in IF page_count = 0 THEN sessions ELSE {session_info} :
         \E scan \in {ScanCards(cards, 1, all_weibos, 0, 0, 0)} :
         \E v \in {PageVerdict(scan, info)} :
             /\ session_info' = sess
             /\ all_weibos' = scan.weibos
             /\ count' = scan.count
             /\ dups' = scan.dups
             /\ last_weibo_id' = IF scan.last # 0 THEN scan.last ELSE last_weibo_id
             /\ empty_pages' = v.empty_pages
             /\ page_count' = v.page_count
             /\ since_id' = IF v.cursor THEN NextSinceId(info.cursor) ELSE since_id
             /\ log' = Log(v.log, page_count + 1)
             /\ unslept' = ~v.slept
             /\ pc' = IF v.break THEN "w_kw_end" ELSE "w_while"
    /\ outcome' = "data"
    /\ success' = TRUE
    /\ UNCHANGED <<kw_idx, params, attempt, iters, output, lvars, bvars, pvars, avars>>

\* After the page loop: wait before the next keyword; stop all keywords
\* once the target is reached.
KeywordEnd ==
    /\ pc = "w_kw_end"
    /\ unslept' = IF kw_idx < NumKeywords THEN FALSE ELSE unslept
    /\ IF ~TargetReached(all_weibos) /\ kw_idx < NumKeywords
       THEN /\ pc' = "w_while"
            /\ kw_idx' = kw_idx + 1
            /\ empty_pages' = 0
            /\ page_count' = 0
            /\ since_id' = 0
            /\ session_info' = NoSession
            /\ last_weibo_id' = 0
            /\ iters' = 0
       ELSE /\ pc' = "w_final"
            /\ UNCHANGED <<kw_idx, empty_pages, page_count, since_id,
                           session_info, last_weibo_id, iters>>
    /\ UNCHANGED <<params, attempt, success, output, all_weibos, count, dups,
                   log, outcome, lvars, bvars, pvars, avars>>

\* The statistics and the write of the output file.
WriteOutput ==
    /\ pc = "w_final"
    /\ output' = all_weibos
    /\ pc' = "done"
    /\ UNCHANGED <<kw_idx, page_count, empty_pages, since_id, session_info,
                   params, attempt, success, iters, cvars, lvars, bvars, pvars, avars>>

WeiboNext ==
    \/ WhileEnter
    \/ WhileExit
    \/ AttemptRetry
    \/ AttemptsExhausted
    \/ AttemptApiError
    \/ AttemptOk(PlainInfos, {NoSession})
    \/ KeywordEnd
    \/ WriteOutput

SpecWeibo == WeiboInit /\ [][WeiboNext]_vars
FairSpecWeibo == SpecWeibo /\ WF_vars(WeiboNext)

\* -------------------------------------------------------- search_bilibili
\* A search result: its author and bvid (0 when the field is missing).
UpItems == [author : {"up", "other"}, bvid : Ids]
BiliItems == [author : {"up"}, bvid : {0, 1}]
BiliPages == SeqsUpTo(BiliItems, MaxCards) \ {<<>>}
UpPages == SeqsUpTo(UpItems, MaxCards) \ {<<>>}

\* The record a loop keeps of a search result.
Video(v) == [up |-> v.author, bvid |-> v.bvid]

BiliInit ==
    /\ pc = "bili_loop"
    /\ IdleC /\ IdleW /\ IdleB /\ IdleP /\ IdleA
    /\ pages \in 1..MaxPagesArg
    /\ page = 1
    /\ results = <<>>
    /\ seen = {}

\* Faulty variant: a failed page ends the loop.
BiliFailed_Break ==
    /\ pc = "bili_loop"
    /\ page <= pages
    /\ \E o \in {"exception", "non200", "api_error", "empty"} :
         /\ outcome' = o
         /\ log' = Log(IF o = "exception" THEN "error"
                       ELSE IF o = "non200" THEN "warn" ELSE "info", page)
    /\ unslept' = TRUE
    /\ pc' = "bili_return"
    /\ UNCHANGED <<lvars, all_weibos, last_weibo_id, count, dups, wvars, bvars,
                   pvars, avars>>

\* A page that raises, has a status other than 200 or an empty body, or
\* carries no result (an API error answer carries none): printed, then the
\* next page, without sleeping.
BiliFailed ==
    /\ pc = "bili_loop"
    /\ page <= pages
    /\ \E o \in {"exception", "non200", "api_error", "empty"} :
         /\ outcome' = o
         /\ log' = Log(IF o = "exception" THEN "error"
                       ELSE IF o = "non200" THEN "warn" ELSE "info", page)
    /\ unslept' = TRUE
    /\ page' = page + 1
    /\ UNCHANGED <<pc, pages, results, seen, all_weibos, last_weibo_id, count,
                   dups, wvars, bvars, pvars, avars>>

\* A page with results: every result is appended, then the loop sleeps.
BiliData ==
    /\ pc = "bili_loop"
    /\ page <= pages
    /\ \E items \in BiliPages :
         /\ results' = results \o [i \in 1..Len(items) |-> Video(items[i])]
         /\ count' = Len(items)
    /\ outcome' = "data"
    /\ unslept' = FALSE
    /\ page' = page + 1
    /\ UNCHANGED <<pc, pages, seen, all_weibos, last_weibo_id, dups, log,
                   wvars, bvars, pvars, avars>>

BiliReturn ==
    /\ pc = "bili_loop"
    /\ page > pages
    /\ pc' = "bili_return"
    /\ returned' = results
    /\ UNCHANGED <<cvars, wvars, lvars, blogger_name, user_id, final_user_id,
                   search_requests, timeline_requests, found_author, missed,
                   pvars, avars>>

\* ------------------------------------------------------- search_up_videos
UpName == "up"

\* Faulty variant: the bvid is not looked up in seen_bvids.
KeepVideo_NoSeen(v, seenNow) == v.author = UpName /\ v.bvid # 0

\* author == up_name and bvid and bvid not in seen_bvids
KeepVideo(v, seenNow) == v.author = UpName /\ v.bvid # 0 /\ v.bvid \notin seenNow

\* The item loop: the new list, the new seen_bvids, the number kept
\* (page_count) and the number rejected.
RECURSIVE ScanItems(_, _, _, _, _, _)
ScanItems(items, i, res, seenNow, n, d) ==
    IF i > Len(items)
    THEN [results |-> res, seen |-> seenNow, count |-> n, dups |-> d]
    ELSE IF KeepVideo(items[i], seenNow)
         THEN ScanItems(items, i + 1, Append(res, Video(items[i])),
                        seenNow \cup {items[i].bvid}, n + 1, d)
         ELSE ScanItems(items, i + 1, res, seenNow, n, d + 1)

UpInit ==
    /\ pc = "up_loop"
    /\ IdleC /\ IdleW /\ IdleB /\ IdleP /\ IdleA
    /\ pages \in 1..MaxPagesArg
    /\ page = 1
    /\ results = <<>>
    /\ seen = {}

\* A page that raises: printed, then the next page, without sleeping.
UpException ==
    /\ pc = "up_loop"
    /\ page <= pages
    /\ outcome' = "exception"
    /\ log' = Log("error", page)
    /\ unslept' = TRUE
    /\ page' = page + 1
    /\ UNCHANGED <<pc, pages, results, seen, all_weibos, last_weibo_id, count,
                   dups, wvars, bvars, pvars, avars>>

\* A status other than 200 or an empty body, an API code other than 0, or
\* no result: printed, and the search stops.
UpStop ==
    /\ pc = "up_loop"
    /\ page <= pages
    /\ \E o \in {"non200", "api_error", "empty"} :
         /\ outcome' = o
         /\ log' = Log(IF o = "empty" THEN "info" ELSE "warn", page)
    /\ unslept' = TRUE
    /\ pc' = "up_return"
    /\ returned' = results
    /\ UNCHANGED <<lvars, all_weibos, last_weibo_id, count, dups, wvars,
                   blogger_name, user_id, final_user_id, search_requests,
                   timeline_requests, found_author, missed, pvars, avars>>

\* A page with results: the videos of the UP are kept; a page without any
\* stops the search, otherwise the loop sleeps.
UpData ==
    /\ pc = "up_loop"
    /\ page <= pages
    /\ \E items \in UpPages :
       \E scan \in {ScanItems(items, 1, results, seen, 0, 0)} :
         /\ results' = scan.results
         /\ seen' = scan.seen
         /\ count' = scan.count
         /\ dups' = scan.dups
         /\ IF scan.count = 0
            THEN /\ log' = Log("stop", page)
                 /\ unslept' = TRUE
                 /\ pc' = "up_return"
                 /\ returned' = scan.results
                 /\ page' = page
            ELSE /\ log' = Log("page", page)
                 /\ unslept' = FALSE
                 /\ page' = page + 1
                 /\ UNCHANGED <<pc, returned>>
    /\ outcome' = "data"
    /\ UNCHANGED <<pages, all_weibos, last_weibo_id, wvars, blogger_name,
                   user_id, final_user_id, search_requests, timeline_requests,
                   found_author, missed, pvars, avars>>

UpReturn ==
    /\ pc = "up_loop"
    /\ page > pages
    /\ pc' = "up_return"
    /\ returned' = results
    /\ UNCHANGED <<cvars, wvars, lvars, blogger_name, user_id, final_user_id,
                   search_requests, timeline_requests, found_author, missed,
                   pvars, avars>>

\* ------------------------------------------------------------ fetch_notes
NoteIds == {0, 1}
NoteLists == SeqsUpTo(NoteIds, MaxCards)

\* The lists of a parsed answer under data.items, data.notes and data.list.
NoteAnswers == [items : NoteLists, notes : {<<>>, <<1>>}, list : NoteLists]

\* items, replaced by data.list when empty (data.notes is read and dropped).
NoteItems(data) == IF data.items # <<>> THEN data.items ELSE data.list

NotesInit ==
    /\ pc = "notes_loop"
    /\ IdleC /\ IdleW /\ IdleB /\ IdleP /\ IdleA
    /\ pages \in 1..MaxPagesArg
    /\ page = 1
    /\ results = <<>>
    /\ seen = {}

\* The request raises, or the body is not JSON (the answer of a refused
\* request): printed, then the next page, without sleeping.
NotesRaise ==
    /\ pc = "notes_loop"
    /\ page <= pages
    /\ \E o \in {"exception", "non200"} : outcome' = o
    /\ log' = Log("error", page)
    /\ unslept' = TRUE
    /\ page' = page + 1
    /\ UNCHANGED <<pc, pages, results, seen, all_weibos, last_weibo_id, count,
                   dups, wvars, bvars, pvars, avars>>

\* A JSON body, whatever the status: its items are appended, then the loop
\* sleeps.  An API error answer carries no list.
NotesJson ==
    /\ pc = "notes_loop"
    /\ page <= pages
    /\ \E o \in {"data", "non200", "api_error"}, data \in NoteAnswers :
         /\ o = "api_error" => data = [items |-> <<>>, notes |-> <<>>, list |-> <<>>]
         /\ outcome' = o
         /\ results' = results \o [i \in 1..Len(NoteItems(data)) |->
                                     [note_id |-> NoteItems(data)[i]]]
         /\ count' = Len(NoteItems(data))
    /\ log' = Log("info", page)
    /\ unslept' = FALSE
    /\ page' = page + 1
    /\ UNCHANGED <<pc, pages, seen, all_weibos, last_weibo_id, dups, wvars,
                   bvars, pvars, avars>>

NotesReturn ==
    /\ pc = "notes_loop"
    /\ page > pages
    /\ pc' = "notes_return"
    /\ returned' = results
    /\ UNCHANGED <<cvars, wvars, lvars, blogger_name, user_id, final_user_id,
                   search_requests, timeline_requests, found_author, missed,
                   pvars, avars>>

\* ---------------------------------------------------------- find_user_uid
\* Screen names are sequences of characters; TAO and BAI stand for the two
\* Chinese characters of rules 4.
TAO == "[tao]"
BAI == "[bai]"
Blogger == <<TAO, BAI, BAI>>

Names ==
    { <<>>, Blogger, <<TAO, BAI, BAI, "S">>, <<BAI>>, <<BAI, "x", TAO>>,
      <<"T", "a", "o", "B", "a", "i">>, <<"x">> }

BloggerNames == {Blogger, <<"x", "y">>}

\* User ids: 0 stands for None (and any other falsy value).
UserIds == {0, 7}

\* A card of a search page: a post with its author's screen_name and id, a
\* card that is skipped (another card_type, or no mblog), or a post whose
\* user is null, on which the author lookup raises.
SkipCard == [kind |-> "skip", name |-> <<>>, uid |-> 0]
BadCard == [kind |-> "bad", name |-> <<>>, uid |-> 0]
UserCards == [kind : {"post"}, name : Names, uid : UserIds] \cup {SkipCard, BadCard}
UserPages == SeqsUpTo(UserCards, MaxCards)

\* s in t, for strings
IsSub(s, t) ==
    \E i \in 0..(Len(t) - Len(s)) : SubSeq(t, i + 1, i + Len(s)) = s

Has(c, s) == \E i \in 1..Len(s) : s[i] = c

\* str.lower()
Lower(s) ==
    [i \in 1..Len(s) |-> IF s[i] = "T" THEN "t" ELSE IF s[i] = "B" THEN "b" ELSE s[i]]

\* is_target
IsTarget(author_name, name) ==
    \/ author_name = name
    \/ IsSub(name, author_name)
    \/ IsSub(author_name, name)
    \/ author_name # <<>> /\ Has(TAO, author_name) /\ Has(BAI, author_name)
    \/ /\ author_name # <<>>
       /\ IsSub(<<"t", "a", "o">>, Lower(author_name))
       /\ IsSub(<<"b", "a", "i">>, Lower(author_name))

\* The card loop of find_user_uid from card i on: the first target author
\* with a truthy id, unless a card raises first.
RECURSIVE FindIn(_, _, _)
FindIn(cards, i, name) ==
    IF i > Len(cards) THEN [res |-> "none", at |-> 0]
    ELSE IF cards[i].kind = "skip" THEN FindIn(cards, i + 1, name)
    ELSE IF cards[i].kind = "bad" THEN [res |-> "raised", at |-> i]
    ELSE IF IsTarget(cards[i].name, name) /\ cards[i].uid # 0
         THEN [res |-> "found", at |-> i]
         ELSE FindIn(cards, i + 1, name)

\* The authors the five documented rules describe: a non-empty screen name
\* matching the blogger name, with a truthy id.
DocumentedMatch(author_name, name) ==
    /\ author_name # <<>>
    /\ \/ author_name = name
       \/ IsSub(name, author_name)
       \/ IsSub(author_name, name)
       \/ Has(TAO, author_name) /\ Has(BAI, author_name)
       \/ /\ IsSub(<<"t", "a", "o">>, Lower(author_name))
          /\ IsSub(<<"b", "a", "i">>, Lower(author_name))

Qualifies(card, name) ==
    card.kind = "post" /\ card.uid # 0 /\ DocumentedMatch(card.name, name)

\* The page holds a qualifying author that the card loop did not return.
PassedOver(cards, r, name) ==
    \E j \in 1..Len(cards) :
        /\ Qualifies(cards[j], name)
        /\ \A k \in 1..(j - 1) : ~Qualifies(cards[k], name)
        /\ ~(r.res = "found" /\ r.at = j)

\* A page that raises, has a status other than 200 or answers ok != 1: the
\* next page, without sleeping; only the exception is printed.
FindFailed ==
    /\ pc = "find_loop"
    /\ page <= MaxSearchPages
    /\ \E o \in {"exception", "non200", "api_error"} :
         /\ outcome' = o
         /\ log' = IF o = "exception" THEN Log("warn", page) ELSE log
    /\ search_requests' = search_requests + 1
    /\ unslept' = TRUE
    /\ page' = page + 1
    /\ UNCHANGED <<pc, pages, results, seen, all_weibos, last_weibo_id, count,
                   dups, wvars, blogger_name, user_id, final_user_id,
                   timeline_requests, found_author, missed, returned, pvars, avars>>

\* A page of cards: the first target author ends the search; a card that
\* raises sends the loop to the next page; otherwise the loop sleeps.
FindData ==
    /\ pc = "find_loop"
    /\ page <= MaxSearchPages
    /\ \E cards \in UserPages :
       \E r \in {FindIn(cards, 1, blogger_name)} :
         /\ missed' = (missed \/ PassedOver(cards, r, blogger_name))
         /\ IF r.res = "found"
            THEN /\ final_user_id' = cards[r.at].uid
                 /\ found_author' = cards[r.at].name
                 /\ log' = Log("found", page)
                 /\ outcome' = "data"
                 /\ unslept' = TRUE
                 /\ pc' = "find_return"
                 /\ page' = page
            ELSE /\ outcome' = IF r.res = "raised" THEN "exception" ELSE "data"
                 /\ log' = IF r.res = "raised" THEN Log("warn", page) ELSE log
                 /\ unslept' = (r.res = "raised")
                 /\ page' = page + 1
                 /\ UNCHANGED <<pc, final_user_id, found_author>>
    /\ search_requests' = search_requests + 1
    /\ UNCHANGED <<pages, results, seen, all_weibos, last_weibo_id, count,
                   dups, wvars, blogger_name, user_id, timeline_requests,
                   returned, pvars, avars>>

\* No page held a target author: None is returned.
FindExhausted ==
    /\ pc = "find_loop"
    /\ page > MaxSearchPages
    /\ log' = Log("not_found", MaxSearchPages)
    /\ pc' = "find_return"
    /\ UNCHANGED <<all_weibos, last_weibo_id, count, dups, outcome, unslept,
                   wvars, lvars, bvars, pvars, avars>>

\* ------------------------------------------------------ get_user_timeline
\* The card loop of get_user_timeline: posts with a truthy id not in
\* seen_ids are appended.
RECURSIVE ScanTimeline(_, _, _, _, _, _, _)
ScanTimeline(cards, i, w, seenNow, n, last, d) ==
    IF i > Len(cards)
    THEN [weibos |-> w, seen |-> seenNow, count |-> n, last |-> last, dups |-> d]
    ELSE IF cards[i] = -1
         THEN ScanTimeline(cards, i + 1, w, seenNow, n, last, d)
         ELSE IF cards[i] # 0 /\ cards[i] \notin seenNow
         THEN ScanTimeline(cards, i + 1,
                           Append(w, [id |-> cards[i], keyword |-> 0]),
                           seenNow \cup {cards[i]}, n + 1, cards[i], d)
         ELSE ScanTimeline(cards, i + 1, w, seenNow, n, last, d + 1)

\* A page that raises: printed, then the next page, without sleeping.
TimelineException ==
    /\ pc = "tl_loop"
    /\ page <= pages
    /\ outcome' = "exception"
    /\ log' = Log("error", page)
    /\ timeline_requests' = timeline_requests + 1
    /\ unslept' = TRUE
    /\ page' = page + 1
    /\ UNCHANGED <<pc, pages, results, seen, all_weibos, last_weibo_id, count,
                   dups, wvars, blogger_name, user_id, final_user_id,
                   search_requests, found_author, missed, returned, pvars, avars>>

\* A status other than 200, ok != 1 or no card: printed, and the loop ends.
TimelineStop ==
    /\ pc = "tl_loop"
    /\ page <= pages
    /\ \E o \in {"non200", "api_error", "empty"} :
         /\ outcome' = o
         /\ log' = Log(IF o = "empty" THEN "info" ELSE "warn", page)
    /\ timeline_requests' = timeline_requests + 1
    /\ unslept' = TRUE
    /\ pc' = "tl_return"
    /\ UNCHANGED <<lvars, all_weibos, last_weibo_id, count, dups, wvars,
                   blogger_name, user_id, final_user_id, search_requests,
                   found_author, missed, returned, pvars, avars>>

\* A page of cards: the new posts are appended; a page without any ends the
\* loop, otherwise the loop sleeps.
TimelineData ==
    /\ pc = "tl_loop"
    /\ page <= pages
    /\ \E cards \in Pages \ {<<>>} :
       \E scan \in {ScanTimeline(cards, 1, all_weibos, seen, 0, last_weibo_id, 0)} :
         /\ all_weibos' = scan.weibos
         /\ seen' = scan.seen
         /\ count' = scan.count
         /\ dups' = scan.dups
         /\ last_weibo_id' = scan.last
         /\ unslept' = (scan.count = 0)
         /\ pc' = IF scan.count = 0 THEN "tl_return" ELSE pc
         /\ page' = IF scan.count = 0 THEN page ELSE page + 1
    /\ outcome' = "data"
    /\ log' = Log("page", page)
    /\ timeline_requests' = timeline_requests + 1
    /\ UNCHANGED <<pages, results, wvars, blogger_name, user_id, final_user_id,
                   search_requests, found_author, missed, returned, pvars, avars>>

TimelineExhausted ==
    /\ pc = "tl_loop"
    /\ page > pages
    /\ pc' = "tl_return"
    /\ UNCHANGED <<cvars, wvars, lvars, bvars, pvars, avars>>

\* --------------------------------------------------- search_blogger_weibo
SbInit ==
    /\ pc = "sb_start"
    /\ IdleC /\ IdleW /\ IdleP /\ IdleA
    /\ blogger_name \in BloggerNames
    /\ user_id \in UserIds
    /\ pages \in 1..MaxPagesArg
    /\ page = 1
    /\ results = <<>>
    /\ seen = {}
    /\ final_user_id = 0
    /\ search_requests = 0
    /\ timeline_requests = 0
    /\ found_author = <<>>
    /\ missed = FALSE
    /\ returned = <<>>

\* Faulty variant: the user_id argument is ignored and the user is always searched.
UidSupplied_Never == FALSE

\* if user_id:
UidSupplied == user_id # 0

\* Step 1: use the UID given, or search for it.
SbStart ==
    /\ pc = "sb_start"
    /\ IF UidSupplied
       THEN /\ final_user_id' = user_id
            /\ log' = Log("uid_given", 0)
            /\ pc' = "tl_loop"
       ELSE /\ pc' = "find_loop"
            /\ UNCHANGED <<final_user_id, log>>
    /\ UNCHANGED <<all_weibos, last_weibo_id, count, dups, outcome, unslept,
                   wvars, lvars, blogger_name, user_id, search_requests,
                   timeline_requests, found_author, missed, returned, pvars, avars>>

\* After find_user_uid: without a UID an empty list is returned, otherwise
\* step 2 starts.
SbAfterFind ==
    /\ pc = "find_return"
    /\ IF final_user_id = 0
       THEN /\ returned' = <<>>
            /\ pc' = "sb_return"
            /\ page' = page
       ELSE /\ pc' = "tl_loop"
            /\ page' = 1
            /\ UNCHANGED returned
    /\ UNCHANGED <<cvars, wvars, pages, results, seen, blogger_name, user_id,
                   final_user_id, search_requests, timeline_requests,
                   found_author, missed, pvars, avars>>

\* The list get_user_timeline built is returned.
SbReturn ==
    /\ pc = "tl_return"
    /\ returned' = all_weibos
    /\ pc' = "sb_return"
    /\ UNCHANGED <<cvars, wvars, lvars, blogger_name, user_id, final_user_id,
                   search_requests, timeline_requests, found_author, missed,
                   pvars, avars>>

LoopsInit == BiliInit \/ UpInit \/ NotesInit \/ SbInit

LoopsNext ==
    \/ BiliFailed \/ BiliData \/ BiliReturn
    \/ UpException \/ UpStop \/ UpData \/ UpReturn
    \/ NotesRaise \/ NotesJson \/ NotesReturn
    \/ SbStart \/ FindFailed \/ FindData \/ FindExhausted \/ SbAfterFind
    \/ TimelineException \/ TimelineStop \/ TimelineData \/ TimelineExhausted
    \/ SbReturn

SpecLoops == LoopsInit /\ [][LoopsNext]_vars

\* ---------------------------------------------------- identify_user_types
\* Ratios and averages are integers in hundredths (50 is 0.50), except
\* avg_interaction, kept as it is; scores are integers in millionths.
COMFORT == "comfort"
ENTERTAINMENT == "entertainment"
DEEP == "deep"
RequiredTypes == {COMFORT, ENTERTAINMENT, DEEP}

\* The cluster profiles drawn: the means that decide the first labels vary,
\* the others are fixed.
Profiles ==
    [academic_career_ratio : {0, 50}, avg_comfort_need : {20, 50},
     entertainment_ratio : {0, 40}, emotional_ratio : {25},
     avg_engagement : {20, 90}, avg_activity : {60}, avg_interaction : {30},
     avg_academic_score : {0}, avg_career_score : {100},
     exam_season_ratio : {0}, recruitment_season_ratio : {20},
     leisure_time_ratio : {0}]

Min(a, b) == IF a < b THEN a ELSE b
Max(a, b) == IF a > b THEN a ELSE b

ComfortScore(p) ==
    LET academic_career_content ==
            p.academic_career_ratio * 10000
            + Min((p.avg_academic_score + p.avg_career_score) * 2000, 500000)
        base == academic_career_content \div 2 + p.avg_comfort_need * 5000
    IN  IF p.exam_season_ratio > 10 \/ p.recruitment_season_ratio > 10
        THEN base + 150000 ELSE base

EntertainmentScore(p) ==
    LET base == Max(p.entertainment_ratio * 6000 + p.emotional_ratio * 4000
                    + Min(p.avg_interaction * 5000, 100000)
                    - Min(p.avg_engagement, 50) * 1000, 0)
        leisure == IF p.leisure_time_ratio > 10 THEN 150000 ELSE 0
        both == IF p.entertainment_ratio > 15 /\ p.emotional_ratio > 15
                THEN 100000 ELSE 0
    IN  base + leisure + both

DeepScore(p) ==
    LET deep_penalty == (IF p.academic_career_ratio > 30 THEN 200000 ELSE 0)
                        + (IF p.avg_comfort_need > 30 THEN 200000 ELSE 0)
        base == Max(Min(p.avg_engagement, 100) * 5000
                    + Min(p.avg_activity, 100) * 3000
                    + Min(p.avg_interaction * 5000, 150000) - deep_penalty, 0)
    IN  IF p.entertainment_ratio + p.emotional_ratio > 40
        THEN (base * 85) \div 100 ELSE base

\* sorted(scores.items(), key=score, reverse=True): a stable sort, so equal
\* scores keep the order comfort, entertainment, deep.
SortedScores(p) ==
    LET order == <<COMFORT, ENTERTAINMENT, DEEP>>
        score == <<ComfortScore(p), EntertainmentScore(p), DeepScore(p)>>
        rank(i) == 1 + Cardinality({j \in 1..3 :
                        score[j] > score[i] \/ (score[j] = score[i] /\ j < i)})
        at(r) == CHOOSE i \in 1..3 : rank(i) = r
    IN  [r \in 1..3 |-> [type |-> order[at(r)], score |-> score[at(r)]]]

\* The label the score rules give a cluster.
UserType(p) ==
    LET sorted_scores == SortedScores(p)
        top_score_type == sorted_scores[1].type
        top_score == sorted_scores[1].score
        entertainment_score == EntertainmentScore(p)
    IN  IF p.academic_career_ratio > 35 /\ p.avg_comfort_need > 40
        THEN COMFORT
        ELSE IF p.entertainment_ratio + p.emotional_ratio > 30
                /\ entertainment_score > 300000
        THEN IF entertainment_score = top_score
                \/ top_score - entertainment_score < 200000
             THEN ENTERTAINMENT
             ELSE IF sorted_scores[2].type = ENTERTAINMENT
                     /\ top_score - entertainment_score < 250000
             THEN ENTERTAINMENT
             ELSE top_score_type
        ELSE IF entertainment_score > 350000 /\ p.avg_engagement < 75
        THEN ENTERTAINMENT
        ELSE top_score_type

EntertainmentSimple(p) ==
    p.entertainment_ratio * 6000 + p.emotional_ratio * 4000
    + (IF p.entertainment_ratio + p.emotional_ratio > 20 THEN 100000 ELSE 0)

EngagementSimple(p) == p.avg_engagement * 5000 + p.avg_activity * 3000

\* The cluster a missing type is forced on: among the clusters not labelled
\* comfort, the first one with the highest score; 0 when there is none.
RECURSIVE PickCluster(_, _, _, _, _, _)
PickCluster(profiles, map, Score(_), i, best, bestScore) ==
    IF i > Len(profiles) THEN best
    ELSE IF map[i] # COMFORT /\ Score(profiles[i]) > bestScore
         THEN PickCluster(profiles, map, Score, i + 1, i, Score(profiles[i]))
         ELSE PickCluster(profiles, map, Score, i + 1, best, bestScore)

Force(map, cluster, type) ==
    IF cluster = 0 THEN map ELSE [map EXCEPT ![cluster] = type]

TypesOf(map) == {map[i] : i \in 1..Len(map)}

\* The final check: a missing entertainment type, then a missing deep
\* type, is forced on a cluster.
FinalCheck(profiles, map) ==
    LET missing_types == RequiredTypes \ TypesOf(map)
        afterEnt ==
            IF ENTERTAINMENT \in missing_types
            THEN Force(map, PickCluster(profiles, map, EntertainmentSimple, 1, 0, -1),
                       ENTERTAINMENT)
            ELSE map
    IN  IF DEEP \in missing_types
        THEN Force(afterEnt, PickCluster(profiles, afterEnt, EngagementSimple, 1, 0, -1),
                   DEEP)
        ELSE afterEnt

PortraitInit ==
    /\ pc = "p_label"
    /\ IdleC /\ IdleW /\ IdleL /\ IdleB /\ IdleA
    /\ cluster_profiles \in [1..NumClusters -> Profiles]
    /\ \A i, j \in 1..NumClusters :
           i # j => cluster_profiles[i] # cluster_profiles[j]
    /\ user_type_map = <<>>

\* The loop over the cluster profiles: the next cluster is labelled.
LabelCluster ==
    /\ pc = "p_label"
    /\ Len(user_type_map) < Len(cluster_profiles)
    /\ user_type_map' =
           Append(user_type_map, UserType(cluster_profiles[Len(user_type_map) + 1]))
    /\ UNCHANGED <<pc, cluster_profiles, cvars, wvars, lvars, bvars, avars>>

\* The final check, and the return of user_type_map.
CheckTypes ==
    /\ pc = "p_label"
    /\ Len(user_type_map) = Len(cluster_profiles)
    /\ user_type_map' = FinalCheck(cluster_profiles, user_type_map)
    /\ pc' = "p_done"
    /\ UNCHANGED <<cluster_profiles, cvars, wvars, lvars, bvars, avars>>

PortraitNext == LabelCluster \/ CheckTypes

SpecPortrait == PortraitInit /\ [][PortraitNext]_vars

\* ----------------------------------- the collectors and the user portrait
Init == WeiboInit \/ LoopsInit \/ PortraitInit

Next == WeiboNext \/ LoopsNext \/ PortraitNext

Spec == Init /\ [][Next]_vars

\* -------------------------------------------------------------- tag_scene
\* Strings are sequences of the pieces below: "yidi" "lian" is the keyword
\* 异地恋, which holds the keyword 异地; "shiye" "danwei" is 事业单位 (Study),
\* which holds 事业 (Career); "xuanze" "kunnan" is 选择困难, which holds 选择.
TextPieces == {"yidi", "lian", "shiye", "danwei", "xuanze", "kunnan", "xing", " ", "x"}

Texts == SeqsUpTo(TextPieces, MaxTextLen)

\* The scenes in the order of the decision_scenes dictionary.
SceneOrder == <<"Emotion", "Study", "Career", "Daily">>

\* decision_scenes, each list cut down to keywords that overlap.
decision_scenes ==
    [Emotion |-> {<<"yidi">>, <<"yidi", "lian">>},
     Study   |-> {<<"shiye", "danwei">>},
     Career  |-> {<<"shiye">>},
     Daily   |-> {<<"xuanze">>, <<"xuanze", "kunnan">>}]

\* loose_keywords: 恋 for Emotion, 星 for Daily.
loose_keywords ==
    [Emotion |-> {<<"lian">>}, Study |-> {}, Career |-> {}, Daily |-> {<<"xing">>}]

\* len(text.strip()) == 0
IsBlank(t) == \A i \in 1..Len(t) : t[i] = " "

\* sum(1 for w in words if w in text)
MatchCount(words, t) == Cardinality({w \in words : IsSub(w, t)})

\* The loop over decision_scenes: the scenes with a match, with their
\* counts, in dictionary order.
RECURSIVE ScoreScenes(_, _)
ScoreScenes(t, i) ==
    IF i > Len(SceneOrder) THEN <<>>
    ELSE LET n == MatchCount(decision_scenes[SceneOrder[i]], t)
         IN  (IF n > 0 THEN <<[scene |-> SceneOrder[i], count |-> n]>> ELSE <<>>)
                 \o ScoreScenes(t, i + 1)

\* Faulty variant: an item goes before the items of equal count.
InsertByCount_Unstable(sorted, item) ==
    LET k == Cardinality({j \in 1..Len(sorted) : sorted[j].count > item.count})
    IN  SubSeq(sorted, 1, k) \o <<item>> \o SubSeq(sorted, k + 1, Len(sorted))

\* One step of the stable descending sort: the item goes after every item
\* whose count is at least its own.
InsertByCount(sorted, item) ==
    LET k == Cardinality({j \in 1..Len(sorted) : sorted[j].count >= item.count})
    IN  SubSeq(sorted, 1, k) \o <<item>> \o SubSeq(sorted, k + 1, Len(sorted))

\* sorted(scene_scores.items(), key=lambda x: x[1], reverse=True)
RECURSIVE SortByCount(_, _, _)
SortByCount(items, i, acc) ==
    IF i > Len(items) THEN acc
    ELSE SortByCount(items, i + 1, InsertByCount(acc, items[i]))

\* ','.join(labels)
RECURSIVE Join(_)
Join(labels) ==
    IF Len(labels) = 0 THEN <<>>
    ELSE IF Len(labels) = 1 THEN <<labels[1]>>
    ELSE <<labels[1], ",">> \o Join(Tail(labels))

\* ','.join([s[0] for s in sorted_scenes[:2]])
TopTwo(items) ==
    LET sorted_scenes == SortByCount(items, 1, <<>>)
        first == SubSeq(sorted_scenes, 1, IF Len(sorted_scenes) < 2
                                          THEN Len(sorted_scenes) ELSE 2)
    IN  Join([j \in 1..Len(first) |-> first[j].scene])

\* The first scene, in dictionary order, with a loose word in the text.
RECURSIVE LooseScene(_, _)
LooseScene(t, i) ==
    IF i > Len(SceneOrder) THEN "Other"
    ELSE IF \E w \in loose_keywords[SceneOrder[i]] : IsSub(w, t)
    THEN SceneOrder[i]
    ELSE LooseScene(t, i + 1)

TagInit ==
    /\ pc = "ts_start"
    /\ IdleC /\ IdleW /\ IdleL /\ IdleB /\ IdleP
    /\ text \in Texts
    /\ scene_scores = <<>> /\ tags = <<>>
    /\ keyword = <<>> /\ scene = "none" /\ script = "none" /\ scores = NoScores

\* An empty or blank text is Other.
TagBlank ==
    /\ pc = "ts_start"
    /\ IsBlank(text)
    /\ tags' = <<"Other">>
    /\ pc' = "ts_done"
    /\ UNCHANGED <<text, scene_scores, keyword, scene, script, scores, cvars,
                   wvars, lvars, bvars, pvars>>

\* The matches of every scene are counted.
TagCount ==
    /\ pc = "ts_start"
    /\ ~IsBlank(text)
    /\ scene_scores' = ScoreScenes(text, 1)
    /\ pc' = "ts_scored"
    /\ UNCHANGED <<text, tags, keyword, scene, script, scores, cvars, wvars,
                   lvars, bvars, pvars>>

\* if hits: the two scenes with the most matches.
TagStrict ==
    /\ pc = "ts_scored"
    /\ scene_scores # <<>>
    /\ tags' = TopTwo(scene_scores)
    /\ pc' = "ts_done"
    /\ UNCHANGED <<text, scene_scores, keyword, scene, script, scores, cvars,
                   wvars, lvars, bvars, pvars>>

\* No strict match: the loose words, and Other as the last resort.
TagLoose ==
    /\ pc = "ts_scored"
    /\ scene_scores = <<>>
    /\ tags' = <<LooseScene(text, 1)>>
    /\ pc' = "ts_done"
    /\ UNCHANGED <<text, scene_scores, keyword, scene, script, scores, cvars,
                   wvars, lvars, bvars, pvars>>

SceneNext == TagBlank \/ TagCount \/ TagStrict \/ TagLoose

SpecScene == TagInit /\ [][SceneNext]_vars

\* ---------------------------------------------------------- infer_scene
\* Pieces of the search keywords: 抽牌 建议 分手 考前 考试 运势 面试 水逆
\* MBTI 星盘 and the space.
KeywordPieces ==
    {"choupai", "jianyi", "fenshou", "kaoqian", "kaoshi", "yunshi", "mianshi",
     "shuini", "mbti", "xingpan", " "}

Keywords == SeqsUpTo(KeywordPieces, MaxKeywordLen)

\* The scenes in the order of the scene_map dictionary, by their names in
\* scene_en_map: 情感 学业 职业 日常 人格/自我.
SceneMapOrder == <<"Emotional", "Academic", "Career", "DailyLife", "SelfIdentity">>

scene_map ==
    [Emotional    |-> {<<"choupai", "jianyi">>, <<"fenshou", " ", "jianyi">>},
     Academic     |-> {<<"kaoqian", " ", "jianyi">>, <<"kaoshi", " ", "yunshi">>},
     Career       |-> {<<"mianshi", " ", "jianyi">>},
     DailyLife    |-> {<<"yunshi">>, <<"shuini">>},
     SelfIdentity |-> {<<"mbti">>}]

\* Faulty variant: a list entry found inside the keyword counts.
KeywordIn_Substring(kw, kws) == \E k \in kws : IsSub(k, kw)

\* keyword in kws, kws a list
KeywordIn(kw, kws) == kw \in kws

\* for scene, kws in scene_map.items(): ... return "其他"
RECURSIVE InferScene(_, _)
InferScene(kw, i) ==
    IF i > Len(SceneMapOrder) THEN "Other"
    ELSE IF KeywordIn(kw, scene_map[SceneMapOrder[i]]) THEN SceneMapOrder[i]
    ELSE InferScene(kw, i + 1)

InferInit ==
    /\ pc = "is_start"
    /\ IdleC /\ IdleW /\ IdleL /\ IdleB /\ IdleP
    /\ keyword \in Keywords
    /\ scene = "none"
    /\ text = <<>> /\ scene_scores = <<>> /\ tags = <<>>
    /\ script = "none" /\ scores = NoScores

\* df["scene"] = df["keyword"].apply(infer_scene), one row
InferRow ==
    /\ pc = "is_start"
    /\ scene' = InferScene(keyword, 1)
    /\ pc' = "is_done"
    /\ UNCHANGED <<text, scene_scores, tags, keyword, script, scores, cvars,
                   wvars, lvars, bvars, pvars>>

SpecQ1 == InferInit /\ [][InferRow]_vars

\* --------------------------------------------- calculate_enhanced_scores
\* A metric with a value between 0 and 1 is an integer number of
\* hundredths; a score is an integer number of 1/100000 of a point, which
\* makes every product and quotient below exact.
Point == 100 * 1000

\* Values of a metric between 0 and 1.
Ratios == {(k * 100) \div RatioSteps : k \in 0..RatioSteps}

\* quality: theme_diversity, avg_length_score, structure_score,
\* rationality_score, all equal or only the first one set.
QualityCases == {<<v, v, v, v>> : v \in Ratios} \cup {<<100, 0, 0, 0>>}

\* post_ratio of the three core themes.
ThemeCases == {<<v, v, v>> : v \in Ratios}

\* taobaibai: signature_match, has_rational, has_action.
FeatureCases == {<<v, v, v>> : v \in Ratios}

\* participant_count
Participants == {0, 50, 200}

\* longnv: active_users
ActiveUsers == {0, 25, 100}

\* taobaibai: active_users, total_users, gini_coefficient.
EngagementCases == {<<0, 0, 100>>, <<1, 4, 50>>, <<100, 1, 0>>}

\* taobaibai: engagement_potential, has_hashtags, has_mentions.
PotentialCases == {<<v, v, v>> : v \in Ratios}

\* taobaibai: balance_score, positive_ratio, negative_ratio.
EmotionCases == {<<v, 100, 0>> : v \in Ratios} \cup {<<0, 0, 100>>}

\* taobaibai: psych_metrics['primary_needs'].values()
NeedValues == {<<>>, <<100>>, <<100, 0>>}

\* taobaibai: support_index, behavior_index, targeted_solutions.
SupportCases == {<<v, v, v>> : v \in Ratios}

RECURSIVE Sum(_)
Sum(q) == IF q = <<>> THEN 0 ELSE Head(q) + Sum(Tail(q))

\* min(max(x, 0), 100)
Clamp(x) == Min(Max(x, 0), 100 * Point)

\* quality_score: (0.4 d + 0.3 l + 0.2 s + 0.1 r) * 40
QualityScore(d, l, s, r) == (4 * d + 3 * l + 2 * s + r) * 40 * 100

\* core_theme_score: sum of the three post_ratio / 3 * 30
CoreThemeScore(p1, p2, p3) == (p1 + p2 + p3) * 100 * 100

\* Faulty variant: the signature match is worth 40 points.
LongnvContent_Signature40(d, l, s, r, p1, p2, p3, m) ==
    QualityScore(d, l, s, r) + CoreThemeScore(p1, p2, p3) + m * 400 * 100

\* longnv: content_score = quality_score + core_theme_score + signature_match * 30
LongnvContent(d, l, s, r, p1, p2, p3, m) ==
    QualityScore(d, l, s, r) + CoreThemeScore(p1, p2, p3) + m * 300 * 100

\* longnv: breadth_score + engagement_score + potential_score
LongnvComm(coverage, participant_count, active_users, potential) ==
    LET breadth_score ==
            Min(coverage * 200 * 100 + Min(participant_count, 100) * 200 * 100,
                40 * Point)
        engagement_score == Min(active_users * 600 * 100, 30 * Point)
        potential_score == potential * 300 * 100
    IN  breadth_score + engagement_score + potential_score

\* longnv: emotion_balance * 30 + support_index * 40 + behavior_index * 30
LongnvPsych(balance_score, support_index, behavior_index) ==
    balance_score * 300 * 100 + support_index * 400 * 100
        + behavior_index * 300 * 100

\* longnv: content * 0.4 + comm * 0.35 + psych * 0.25
LongnvTotal(sc) == (sc.content * 40 + sc.comm * 35 + sc.psych * 25) \div 100

\* taobaibai: the signature part mixes three metrics; the sum is clamped.
TaobaibaiContent(d, l, s, r, p1, p2, p3, m, has_rational, has_action) ==
    Clamp(QualityScore(d, l, s, r) + CoreThemeScore(p1, p2, p3)
              + (5 * m + 3 * has_rational + 2 * has_action) * 30 * 100)

\* taobaibai: coverage_score + user_score + potential_score, clamped
\* (c: coverage_ratio, a: active_users, u: total_users, g: gini_coefficient,
\* e: engagement_potential, hh: has_hashtags, hm: has_mentions)
TaobaibaiComm(c, a, u, g, e, hh, hm) ==
    LET coverage_score == c * 400 * 100
        active_share == (a * 100) \div Max(1, u)
        user_score ==
            (6 * Min(active_share, 100) + 4 * (100 - Min(g, 80))) * 30 * 100
        potential_score == (5 * e + 3 * hh + 2 * hm) * 30 * 100
    IN  Clamp(coverage_score + user_score + potential_score)

\* taobaibai: emotion_score + need_score + support_score, clamped
\* (b: balance_score, pr: positive_ratio, nr: negative_ratio,
\* si: support_index, bi: behavior_index, ts: targeted_solutions)
TaobaibaiPsych(b, pr, nr, primary_needs, si, bi, ts) ==
    LET emotion_score == (6 * b + 4 * Max(pr - nr, 0)) * 35 * 100
        need_score ==
            IF primary_needs = <<>> THEN 0
            ELSE (Sum(primary_needs) * 350 * 100) \div Len(primary_needs)
        support_score ==
            (4 * si + 3 * bi + 3 * ts) * 30 * 100
    IN  Clamp(emotion_score + need_score + support_score)

\* taobaibai: content * 0.35 + comm * 0.30 + psych * 0.35, clamped
TaobaibaiTotal(sc) ==
    Clamp((sc.content * 35 + sc.comm * 30 + sc.psych * 35) \div 100)

ScoresInit ==
    /\ pc = "es_content"
    /\ IdleC /\ IdleW /\ IdleL /\ IdleB /\ IdleP
    /\ script \in {"longnv", "taobaibai"}
    /\ scores = NoScores
    /\ text = <<>> /\ scene_scores = <<>> /\ tags = <<>>
    /\ keyword = <<>> /\ scene = "none"

\* 1. the content score; 0 when content_metrics is empty
ScoreContent ==
    /\ pc = "es_content"
    /\ \/ scores' = [scores EXCEPT !.content = 0]
       \/ /\ script = "longnv"
          /\ \E q \in QualityCases, t \in ThemeCases, m \in Ratios :
               scores' = [scores EXCEPT !.content =
                   LongnvContent(q[1], q[2], q[3], q[4], t[1], t[2], t[3], m)]
       \/ /\ script = "taobaibai"
          /\ \E q \in QualityCases, t \in ThemeCases, f \in FeatureCases :
               scores' = [scores EXCEPT !.content =
                   TaobaibaiContent(q[1], q[2], q[3], q[4], t[1], t[2], t[3],
                                    f[1], f[2], f[3])]
    /\ pc' = "es_comm"
    /\ UNCHANGED <<text, scene_scores, tags, keyword, scene, script, cvars,
                   wvars, lvars, bvars, pvars>>

\* 2. the communication score; 0 when comm_metrics is empty
ScoreComm ==
    /\ pc = "es_comm"
    /\ \/ scores' = [scores EXCEPT !.comm = 0]
       \/ /\ script = "longnv"
          /\ \E c \in Ratios, n \in Participants, a \in ActiveUsers, p \in Ratios :
               scores' = [scores EXCEPT !.comm = LongnvComm(c, n, a, p)]
       \/ /\ script = "taobaibai"
          /\ \E c \in Ratios, e \in EngagementCases, p \in PotentialCases :
               scores' = [scores EXCEPT !.comm =
                   TaobaibaiComm(c, e[1], e[2], e[3], p[1], p[2], p[3])]
    /\ pc' = "es_psych"
    /\ UNCHANGED <<text, scene_scores, tags, keyword, scene, script, cvars,
                   wvars, lvars, bvars, pvars>>

\* 3. the psychological score; 0 when psych_metrics is empty
ScorePsych ==
    /\ pc = "es_psych"
    /\ \/ scores' = [scores EXCEPT !.psych = 0]
       \/ /\ script = "longnv"
          /\ \E b \in Ratios, si \in Ratios, bi \in Ratios :
               scores' = [scores EXCEPT !.psych = LongnvPsych(b, si, bi)]
       \/ /\ script = "taobaibai"
          /\ \E e \in EmotionCases, needs \in NeedValues, u \in SupportCases :
               scores' = [scores EXCEPT !.psych =
                   TaobaibaiPsych(e[1], e[2], e[3], needs, u[1], u[2], u[3])]
    /\ pc' = "es_total"
    /\ UNCHANGED <<text, scene_scores, tags, keyword, scene, script, cvars,
                   wvars, lvars, bvars, pvars>>

\* 4. the composite score
ScoreTotal ==
    /\ pc = "es_total"
    /\ scores' = [scores EXCEPT
                     !.total = IF script = "longnv" THEN LongnvTotal(scores)
                               ELSE TaobaibaiTotal(scores)]
    /\ pc' = "es_done"
    /\ UNCHANGED <<text, scene_scores, tags, keyword, scene, script, cvars,
                   wvars, lvars, bvars, pvars>>

ScoresNext == ScoreContent \/ ScoreComm \/ ScorePsych \/ ScoreTotal

SpecScores == ScoresInit /\ [][ScoresNext]_vars

\* ------------------------------------------------- properties: weibo_data
\* The next step of weibo_data issues an HTTP request.
WeiboRequesting == pc = "w_attempt" /\ attempt < MaxAttempts

C5_EmptyPageExit ==
    (pc = "w_kw_end" /\ WhileCond /\ success /\ count = 0)
        => (empty_pages >= EMPTY_LIMIT \/ log.tag = "no_more")

\* C2: after identify_user_types on three clusters, every one of the three
\* user types is given to at least one cluster.
C2_AllTypesIdentified ==
    pc = "p_done" => TypesOf(user_type_map) = RequiredTypes

\* C6: no request is issued once TARGET_TOTAL posts are collected.
C6_NoRequestAfterTarget ==
    WeiboRequesting => Len(all_weibos) < TARGET_TOTAL

\* The target was reached while keywords were still left, and the script
\* has finished.
C6_Witness ==
    pc = "done" /\ Len(all_weibos) >= TARGET_TOTAL /\ kw_idx < NumKeywords

\* C7: no two collected posts have the same id, in weibo_data's all_weibos
\* and in the list get_user_timeline returns.
NoDupIds(w) == \A i, j \in 1..Len(w) : i # j => w[i].id # w[j].id

C7_UniqueIds ==
    /\ NoDupIds(all_weibos)
    /\ pc = "sb_return" => NoDupIds(returned)

\* Under the second keyword a page offered a post again that the first
\* keyword had collected, and it was rejected.
C7_Witness ==
    /\ pc \in {"w_while", "w_kw_end"}
    /\ kw_idx = 2 /\ iters >= 1 /\ success /\ dups > 0
    /\ all_weibos # <<>>
    /\ \A i \in 1..Len(all_weibos) : all_weibos[i].keyword = 1

\* ---------------------------------------------- properties: paging loops
Failed == {"exception", "non200", "api_error"}

ReturnPcs == {"bili_return", "up_return", "notes_return", "find_return", "tl_return"}

\* The configured number of pages of the loop that ran or runs.
LoopLimit == IF pc \in {"find_loop", "find_return"} THEN MaxSearchPages ELSE pages

\* The next step issues the request for a page.
LoopRequesting ==
    /\ pc \in {"bili_loop", "up_loop", "notes_loop", "find_loop", "tl_loop"}
    /\ page <= LoopLimit

IsPrefix(s, t) == Len(s) <= Len(t) /\ SubSeq(t, 1, Len(s)) = s

\* C3 as stated: a loop whose last page failed has requested every
\* configured page.
C3_FailedPageContinues ==
    (pc \in ReturnPcs /\ outcome \in Failed) => page >= LoopLimit

\* The records collected so far are kept by every step.
RecordsKept ==
    IsPrefix(results, results') /\ IsPrefix(all_weibos, all_weibos')

\* A failed page is printed, except the pages find_user_uid skips silently.
FailurePrinted ==
    (LoopRequesting /\ outcome' \in Failed)
        => \/ log'.page = page /\ log'.tag \in {"warn", "error", "info"}
           \/ pc = "find_loop" /\ outcome' \in {"non200", "api_error"}

\* C3 (amended): in search_bilibili, find_user_uid and fetch_notes no failed
\* page ends the loop; in search_up_videos and get_user_timeline a page that
\* raises does not, while a status other than 200 or an API error ends the
\* loop at that page; the records of earlier pages are kept, and the failure
\* is printed except by find_user_uid for a status or an API error.
C3_Amended ==
    /\ []((pc \in {"bili_return", "notes_return", "find_return"} /\ outcome \in Failed)
            => page > LoopLimit)
    /\ []((pc \in {"up_return", "tl_return"} /\ outcome = "exception")
            => page > pages)
    /\ []((pc \in {"up_return", "tl_return"} /\ outcome \in {"non200", "api_error"})
            => page <= pages)
    /\ [][RecordsKept]_vars
    /\ [][FailurePrinted]_vars

\* search_bilibili has returned the results of an earlier page although its
\* last page failed.
C3_Witness ==
    pc = "bili_return" /\ outcome \in Failed /\ returned # <<>> /\ page > pages

\* C4: in search_bilibili, fetch_notes and the weibo_data page loop, a sleep
\* separates every request from the next one.
C4_SleepBetweenRequests ==
    (WeiboRequesting \/ (pc \in {"bili_loop", "notes_loop"} /\ page <= pages))
        => ~unslept

\* C8: every record of search_up_videos has up = up_name and a non-empty
\* bvid, and no two records share a bvid.
C8_UpVideos ==
    pc \in {"up_loop", "up_return"} =>
        LET r == IF pc = "up_return" THEN returned ELSE results
        IN  /\ \A i \in 1..Len(r) : r[i].up = UpName /\ r[i].bvid # 0
            /\ \A i, j \in 1..Len(r) : i # j => r[i].bvid # r[j].bvid

\* search_up_videos has returned records after rejecting a result.
C8_Witness == pc = "up_return" /\ returned # <<>> /\ dups > 0

\* C9: a timeline request needs a UID; a supplied user_id is used as it is
\* without any user search; without user_id and without a found UID the
\* empty list is returned and no timeline request is issued.
C9_UidBeforeTimeline ==
    /\ timeline_requests > 0 => final_user_id # 0
    /\ user_id # 0 =>
          /\ search_requests = 0
          /\ pc # "sb_start" => final_user_id = user_id
    /\ (pc = "sb_return" /\ final_user_id = 0) =>
          /\ user_id = 0
          /\ returned = <<>>
          /\ timeline_requests = 0

\* No user_id was given, every search page was requested, none gave a UID
\* and the empty list was returned.
C9_Witness ==
    /\ pc = "sb_return" /\ user_id = 0 /\ final_user_id = 0
    /\ search_requests = MaxSearchPages

\* C10: find_user_uid returns the UID of the first author, in page and card
\* order, with a non-empty screen name matching the blogger name by one of
\* the five rules and a truthy id, and None when no page holds one.
C10_FindUserUid ==
    pc = "find_return" =>
        /\ ~missed
        /\ final_user_id # 0 => DocumentedMatch(found_author, blogger_name)

\* ------------------------------------------------- properties: tag_scene
Scenes == {SceneOrder[i] : i \in 1..Len(SceneOrder)}

ScenePos(sc) == CHOOSE i \in 1..Len(SceneOrder) : SceneOrder[i] = sc

\* Number of strict keywords of the scene found in the text.
Hits(sc) == Cardinality({w \in decision_scenes[sc] : IsSub(w, text)})

Matched == {sc \in Scenes : Hits(sc) > 0}

\* Scene a comes before scene b: more matches, or as many and earlier in
\* the fixed order.
Before(a, b) ==
    \/ Hits(a) > Hits(b)
    \/ Hits(a) = Hits(b) /\ ScenePos(a) < ScenePos(b)

Rank(sc) == Cardinality({o \in Matched : Before(o, sc)})

\* C11: for a text with a strict keyword tag_scene returns one label, or two
\* distinct labels joined by a comma: the matched scenes that come first by
\* number of matches, ties in the order Emotion, Study, Career, Daily.
C11_TopTwoScenes ==
    (pc = "ts_done" /\ Matched # {}) =>
        /\ Len(tags) \in {1, 3}
        /\ Len(tags) = 3 => tags[2] = "," /\ tags[1] # tags[3]
        /\ Len(tags) = 1 <=> Cardinality(Matched) = 1
        /\ \A sc \in Matched :
              /\ Rank(sc) = 0 <=> tags[1] = sc
              /\ Rank(sc) = 1 <=> (Len(tags) = 3 /\ tags[3] = sc)

\* Three scenes matched, the second and the third with as many matches, and
\* the one later in the fixed order was left out.
C11_Witness ==
    /\ pc = "ts_done"
    /\ Cardinality(Matched) >= 3
    /\ Len(tags) = 3
    /\ Hits(tags[1]) > Hits(tags[3])
    /\ \E sc \in Matched \ {tags[1], tags[3]} : Hits(sc) = Hits(tags[3])

\* ----------------------------------------------- properties: infer_scene
MapScenes == {SceneMapOrder[i] : i \in 1..Len(SceneMapOrder)}

\* Some entry of the scene's list is a substring of the keyword.
HoldsEntryOf(sc) == \E k \in scene_map[sc] : IsSub(k, keyword)

\* C12 as stated: a scene is assigned whenever an entry of a scene list is
\* a substring of the keyword, the scene assigned is one with such an
\* entry, and Other (其他) is assigned only when no list has one.
C12_SubstringRule ==
    pc = "is_done" =>
        /\ scene = "Other" <=> \A sc \in MapScenes : ~HoldsEntryOf(sc)
        /\ scene # "Other" => HoldsEntryOf(scene)

\* C12 (amended): a video is assigned to the scene whose list holds its
\* search keyword as a whole entry, and to Other (其他) when no list holds
\* it, even if an entry of a list is a substring of the keyword.
C12_ExactRule ==
    pc = "is_done" =>
        /\ scene = "Other" <=> \A sc \in MapScenes : keyword \notin scene_map[sc]
        /\ scene # "Other" => keyword \in scene_map[scene]

\* A keyword that holds a list entry without being one (星盘运势 holds 运势)
\* was assigned to Other.
C12_Witness ==
    /\ pc = "is_done" /\ scene = "Other"
    /\ \E sc \in MapScenes : HoldsEntryOf(sc)

\* --------------------------------- properties: calculate_enhanced_scores
InRange(x) == 0 <= x /\ x <= 100 * Point

\* C13: for metrics between 0 and 1 and counts that are not negative, the
\* content, communication, psychological and composite scores of longnv and
\* of taobaibai all lie between 0 and 100.
C13_ScoresInRange ==
    pc \in {"es_comm", "es_psych", "es_total", "es_done"} =>
        /\ InRange(scores.content) /\ InRange(scores.comm)
        /\ InRange(scores.psych) /\ InRange(scores.total)

\* longnv, which clamps no score, has returned 100 for all four.
C13_Witness ==
    /\ pc = "es_done" /\ script = "longnv"
    /\ scores.content = 100 * Point /\ scores.comm = 100 * Point
    /\ scores.psych = 100 * Point /\ scores.total = 100 * Point

\* ------------------------------------- properties: weibo_data, skipped page
\* All three attempts for a page have failed, the page was reported as
\* skipped, and the keyword's page loop goes on.
SkippedAfterAttempts ==
    /\ pc = "w_while"
    /\ log.tag = "skipped"
    /\ attempt = MaxAttempts
    /\ empty_pages >= 1
    /\ WhileCond

\* C14: after three failed attempts the next iteration of the page loop
\* requests the following page: the parameters it builds differ from those
\* of the request that failed.
C14_SkippedPageNotRepeated == SkippedAfterAttempts => BuildParams # params
====
